---- MODULE Spec2Model ----
(***************************************************************************)
(* Model of scripts/fetch_alpaca_data.py: the metrics calculator           *)
(* compute_metrics and the refresh pipeline main -> fetch_alpaca_data ->   *)
(* save_json.                                                              *)
(*                                                                         *)
(* Numbers are Python floats modelled as extended rationals: a record      *)
(* [k, n, d] with k = "fin" (the rational n/d, d > 0, in lowest terms),    *)
(* k = "inf" (n = 1 or -1 is the sign) or k = "nan".  Two irrational       *)
(* results are kept symbolic and exact: k = "pow" is 2^(n/d) - 1 and       *)
(* k = "sqrt" is sign(n) * sqrt(|n|/d).  JSON list elements use the same   *)
(* record with k = "null" (JSON null) and k = "bad" (a JSON value float()  *)
(* and int() reject, such as the string "abc").                            *)
(***************************************************************************)
EXTENDS Integers, Sequences, FiniteSets, TLC

VARIABLES pc, env, requests, posResp, histResp, ordResp,
          positions, history, orders, metrics, pairs, exc,
          document, file, writes

vars == <<pc, env, requests, posResp, histResp, ordResp,
          positions, history, orders, metrics, pairs, exc,
          document, file, writes>>

(***************************************************************************)
(* Bounds of the model and constants of the program.                       *)
(***************************************************************************)
MaxLen == 3

MaxSeries == 4

SecondsPerDay == 86400

TradingDays == 252

\* 365.25 * 86400: the seconds of the year of line 94, so 1 / years is
\* SecondsPerYear / (last timestamp - first timestamp).
SecondsPerYear == 365 * SecondsPerDay + SecondsPerDay \div 4

\* math.pow raises OverflowError when its result reaches 2^1024.
DoubleMaxExp == 1024

(***************************************************************************)
(* Extended rational arithmetic.                                           *)
(***************************************************************************)
Abs(x) == IF x < 0 THEN -x ELSE x

Sign(x) == IF x < 0 THEN -1 ELSE IF x > 0 THEN 1 ELSE 0

RECURSIVE GCD(_, _)
GCD(a, b) == IF b = 0 THEN a ELSE GCD(b, a % b)

Num(n, d) ==
    LET g == GCD(Abs(n), Abs(d))
    IN  [k |-> "fin", n |-> (Sign(d) * n) \div g, d |-> Abs(d) \div g]

Zero == Num(0, 1)

One == Num(1, 1)

Inf == [k |-> "inf", n |-> 1, d |-> 0]

NegInf == [k |-> "inf", n |-> -1, d |-> 0]

Nan == [k |-> "nan", n |-> 0, d |-> 0]

Null == [k |-> "null", n |-> 0, d |-> 0]

Bad == [k |-> "bad", n |-> 0, d |-> 0]

\* the values of the arithmetic
Numbers == [k : STRING, n : Int, d : Int]

\* math.isfinite
IsFinite(x) == x.k \in {"fin", "pow", "sqrt"}

\* x > 0 on floats: false for NaN
Positive(x) == (x.k = "fin" /\ x.n > 0) \/ (x.k = "inf" /\ x.n > 0)

ExtSub[a \in Numbers, b \in Numbers] ==
    IF a.k = "nan" \/ b.k = "nan" THEN Nan
    ELSE IF a.k = "inf" /\ b.k = "inf" THEN (IF a.n = b.n THEN Nan ELSE a)
    ELSE IF a.k = "inf" THEN a
    ELSE IF b.k = "inf" THEN (IF b.n > 0 THEN NegInf ELSE Inf)
    ELSE Num(a.n * b.d - b.n * a.d, a.d * b.d)

ExtAdd[a \in Numbers, b \in Numbers] ==
    IF a.k = "nan" \/ b.k = "nan" THEN Nan
    ELSE IF a.k = "inf" /\ b.k = "inf" THEN (IF a.n = b.n THEN a ELSE Nan)
    ELSE IF a.k = "inf" THEN a
    ELSE IF b.k = "inf" THEN b
    ELSE Num(a.n * b.d + b.n * a.d, a.d * b.d)

ExtMul[a \in Numbers, b \in Numbers] ==
    IF a.k = "nan" \/ b.k = "nan" THEN Nan
    ELSE IF a.k = "inf" \/ b.k = "inf"
         THEN (IF a.n = 0 \/ b.n = 0 THEN Nan
               ELSE IF Sign(a.n) = Sign(b.n) THEN Inf ELSE NegInf)
    ELSE Num(a.n * b.n, a.d * b.d)

\* a / b for b # 0 (a zero divisor raises ZeroDivisionError, see ReturnsExc
\* and StatsExc)
ExtDiv[a \in Numbers, b \in Numbers] ==
    IF a.k = "nan" \/ b.k = "nan" THEN Nan
    ELSE IF a.k = "inf" /\ b.k = "inf" THEN Nan
    ELSE IF a.k = "inf" THEN (IF Sign(a.n) = Sign(b.n) THEN Inf ELSE NegInf)
    ELSE IF b.k = "inf" THEN Zero
    ELSE Num(a.n * b.d, a.d * b.n)

RECURSIVE SumSeq(_)
SumSeq(s) == IF s = <<>> THEN Zero ELSE ExtAdd[Head(s), SumSeq(Tail(s))]

\* log2 of a power of two (the floor of log2 otherwise)
RECURSIVE Log2(_)
Log2(n) == IF n <= 1 THEN 0 ELSE 1 + Log2(n \div 2)

Min(a, b) == IF a < b THEN a ELSE b

(***************************************************************************)
(* JSON values.  A history is [kind, equity, timestamp]: kind "dict" is a  *)
(* JSON object whose two fields are [k, v] with k = "list" (v the          *)
(* elements), "str" (a string), "null" (JSON null) or "missing" (no such   *)
(* key); kind "none" is None, "emptylist" is [] and "list" a non-empty     *)
(* JSON array.                                                             *)
(***************************************************************************)
Field(k, v) == [k |-> k, v |-> v]

Missing == Field("missing", <<>>)

ListOf(v) == Field("list", v)

Hist(kind, e, t) == [kind |-> kind, equity |-> e, timestamp |-> t]

NoneHistory == Hist("none", Missing, Missing)

EmptyDict == Hist("dict", Missing, Missing)

\* JSON values other than a history: a non-empty array, [], a number, null
Json(kind) == Hist(kind, Missing, Missing)

EmptyList == Json("emptylist")

\* the outcome of a request that failed (HTTP error status, network error,
\* a body that is not JSON)
RequestError == Json("error")

\* Python truthiness of a value
Truthy(h) ==
    \/ h.kind \in {"list", "num"}
    \/ h.kind = "dict" /\ (h.equity.k # "missing" \/ h.timestamp.k # "missing")

\* len(x) is defined (x is a list or a dict)
Sized(h) == h.kind \in {"list", "emptylist", "dict"}

(***************************************************************************)
(* compute_metrics, lines 59-108.                                          *)
(***************************************************************************)
ZeroMetrics == [annualizedReturn |-> Zero, sharpeRatio |-> Zero, totalReturn |-> Zero]

Returned(m, p) == [exc |-> "none", result |-> m, pairs |-> p]

Raised(e) == [exc |-> e, result |-> ZeroMetrics, pairs |-> <<>>]

\* the indices of the list elements that are not None, in order
NonNullIdx(s) == SelectSeq([i \in 1..Len(s) |-> i], LAMBDA i : s[i].k # "null")

\* float(x): the exception it raises, "none" when it converts
FloatExc(x) == IF x.k = "bad" THEN "ValueError" ELSE "none"

\* int(x): the exception it raises, "none" when it converts
IntExc(x) ==
    IF x.k = "bad" \/ x.k = "nan" THEN "ValueError"
    ELSE IF x.k = "inf" THEN "OverflowError"
    ELSE "none"

\* float(x) of a number
ToFloat(x) == x

\* int(x) of a finite number: truncation toward zero
ToInt(x) == Num(Sign(x.n) * (Abs(x.n) \div x.d), 1)

\* line 64: the non-null equities as floats, each with the index it came from
RawEquity(h) ==
    LET idx == NonNullIdx(h.equity.v)
    IN  [j \in 1..Len(idx) |-> [v |-> ToFloat(h.equity.v[idx[j]]), i |-> idx[j]]]

\* line 65: the non-null timestamps as ints, each with the index it came from
RawTimestamps(h) ==
    LET idx == NonNullIdx(h.timestamp.v)
    IN  [j \in 1..Len(idx) |-> [v |-> ToInt(h.timestamp.v[idx[j]]), i |-> idx[j]]]

\* the first exception of the two comprehensions of lines 64-65
CoerceExc(h) ==
    LET e == h.equity.v
        t == h.timestamp.v
        be == {i \in 1..Len(e) : e[i].k # "null" /\ FloatExc(e[i]) # "none"}
        bt == {i \in 1..Len(t) : t[i].k # "null" /\ IntExc(t[i]) # "none"}
        first(S) == CHOOSE i \in S : \A j \in S : i <= j
    IN  IF be # {} THEN FloatExc(e[first(be)])
        ELSE IF bt # {} THEN IntExc(t[first(bt)])
        ELSE "none"

\* line 66
AlignedCount(h) == Min(Len(RawEquity(h)), Len(RawTimestamps(h)))

\* lines 69-72: zip the two prefixes of length n, keep the pairs with eq > 0
Pairs(h) ==
    LET re == RawEquity(h)
        rt == RawTimestamps(h)
        n  == AlignedCount(h)
        zipped == [j \in 1..n |-> [eq |-> re[j].v, ts |-> rt[j].v,
                                   ei |-> re[j].i, ti |-> rt[j].i]]
    IN  SelectSeq(zipped, LAMBDA p : Positive(p.eq))

\* line 80
DailyReturn(prev, curr) == ExtDiv[ExtSub[curr, prev], prev]

\* lines 78-82: the finite returns between consecutive surviving equities
DailyReturns(p) ==
    LET all == [j \in 1..(Len(p) - 1) |-> DailyReturn(p[j].eq, p[j + 1].eq)]
    IN  SelectSeq(all, LAMBDA r : IsFinite(r))

\* lines 87-89
TotalReturn(p) == ExtSub[ExtDiv[p[Len(p)].eq, p[1].eq], One]

\* timestamps[-1] - timestamps[0] in seconds
Elapsed(p) == p[Len(p)].ts.n - p[1].ts.n

\* line 96 raises OverflowError: the power 2^(log2(ratio) * SecondsPerYear / dt)
\* reaches 2^1024
PowOverflows(ratio, dt) ==
    /\ ratio.k = "fin"
    /\ ratio.n # 0
    /\ LET e == Num((Log2(ratio.n) - Log2(ratio.d)) * SecondsPerYear, dt)
       IN  e.n >= DoubleMaxExp * e.d

\* line 96: math.pow(ratio, 1 / years) - 1 for dt > 0 seconds elapsed
PowMinusOne(ratio, dt) ==
    IF ratio.k = "nan" THEN Nan
    ELSE IF ratio.k = "inf" THEN Inf
    ELSE IF ratio.n = 0 THEN Num(-1, 1)
    ELSE IF ratio.n = ratio.d THEN Zero
    ELSE LET e == Num((Log2(ratio.n) - Log2(ratio.d)) * SecondsPerYear, dt)
         IN  [k |-> "pow", n |-> e.n, d |-> e.d]

\* lines 91 and 93: days > 0 (and with it years > 0, line 95)
DaysNonZero(dt) == Num(dt, SecondsPerDay).n # 0

DaysPositive(dt) == Num(dt, SecondsPerDay).n > 0

\* lines 91-96
AnnualizedReturn(p) ==
    IF DaysPositive(Elapsed(p))
    THEN PowMinusOne(ExtDiv[p[Len(p)].eq, p[1].eq], Elapsed(p))
    ELSE Zero

\* the exception of line 96
AnnualizedExc(p) ==
    IF DaysPositive(Elapsed(p)) /\ PowOverflows(ExtDiv[p[Len(p)].eq, p[1].eq], Elapsed(p))
    THEN "OverflowError"
    ELSE "none"

\* the exception of line 80: a zero prev
ReturnsExc(p) ==
    IF \E j \in 1..(Len(p) - 1) : p[j].eq.k = "fin" /\ p[j].eq.n = 0
    THEN "ZeroDivisionError"
    ELSE "none"

\* the exception of lines 99-100: len(returns) or len(returns) - 1 is zero
StatsExc(rs) == IF Len(rs) <= 1 THEN "ZeroDivisionError" ELSE "none"

\* line 99
Mean(rs) == ExtDiv[SumSeq(rs), Num(Len(rs), 1)]

\* line 100
Variance(rs) ==
    LET m == Mean(rs)
        sq == [j \in 1..Len(rs) |-> ExtMul[ExtSub[rs[j], m], ExtSub[rs[j], m]]]
    IN  ExtDiv[SumSeq(sq), Num(Len(rs) - 1, 1)]

\* lines 101-102: (mean / sqrt(variance)) * sqrt(252), kept as its signed square
SharpeRatio(rs) ==
    LET m == Mean(rs)
        v == Variance(rs)
        q == ExtDiv[ExtMul[Num(TradingDays, 1), ExtMul[m, m]], v]
    IN  IF v.n > 0 /\ m.n # 0
        THEN [k |-> "sqrt", n |-> Sign(m.n) * q.n, d |-> q.d]
        ELSE Zero

FiniteOrSame(x) == x

\* lines 105-107: float(x) if math.isfinite(x) else 0.0
FiniteOrZero(x) == IF IsFinite(x) THEN x ELSE Zero

\* the record of lines 104-108
MetricsOf(p, rs) ==
    [annualizedReturn |-> FiniteOrZero(AnnualizedReturn(p)),
     sharpeRatio      |-> FiniteOrZero(SharpeRatio(rs)),
     totalReturn      |-> FiniteOrZero(TotalReturn(p))]

AtLeastOneReturn(rs) == Len(rs) >= 1

\* the guard of line 84
EnoughReturns(rs) == Len(rs) >= 2

\* the one element of a singleton set: binds a value that is computed once
The(S) == CHOOSE x \in S : TRUE

\* lines 84-108, from the surviving pairs p and their finite returns rs
MetricsFromReturns(p, rs) ==
    IF ~EnoughReturns(rs) THEN Returned(ZeroMetrics, p)
    ELSE IF AnnualizedExc(p) # "none" THEN Raised(AnnualizedExc(p))
    ELSE IF StatsExc(rs) # "none" THEN Raised(StatsExc(rs))
    ELSE Returned(MetricsOf(p, rs), p)

\* lines 73-108, from the surviving pairs p
MetricsFromPairs(p) ==
    IF Len(p) < 2 THEN Returned(ZeroMetrics, p)
    ELSE IF ReturnsExc(p) # "none" THEN Raised(ReturnsExc(p))
    ELSE The({MetricsFromReturns(p, rs) : rs \in {DailyReturns(p)}})

ComputeMetrics(h) ==
    IF ~Truthy(h) THEN Returned(ZeroMetrics, <<>>)
    ELSE IF h.kind # "dict" THEN Raised("AttributeError")
    ELSE IF h.equity.k # "list" \/ h.timestamp.k # "list" THEN Returned(ZeroMetrics, <<>>)
    ELSE IF CoerceExc(h) # "none" THEN Raised(CoerceExc(h))
    ELSE IF AlignedCount(h) < 2 THEN Returned(ZeroMetrics, <<>>)
    ELSE The({MetricsFromPairs(p) : p \in {Pairs(h)}})

(***************************************************************************)
(* The inputs of the metrics calculator.                                   *)
(***************************************************************************)
EquityElems == {Null, Bad, Inf, Num(0, 1), Num(1, 1), Num(2, 1)}

TimestampElems == {Null, Bad, Num(0, 1), Num(121, 2), Num(SecondsPerDay, 1)}

SeqsUpTo(S, n) == UNION {[1..m -> S] : m \in 0..n}

MalformedFields == {Missing, Field("null", <<>>), Field("str", <<>>)}

EquityFields == MalformedFields \cup {ListOf(s) : s \in SeqsUpTo(EquityElems, MaxLen)}

TimestampFields == MalformedFields \cup {ListOf(s) : s \in SeqsUpTo(TimestampElems, MaxLen)}

\* longer series of numbers only
SeriesEquityElems == {Inf, Num(0, 1), Num(1, 1), Num(2, 1)}

SeriesTimestampElems == {Num(0, 1), Num(121, 2), Num(SecondsPerDay, 1)}

SeriesEquityFields ==
    MalformedFields \cup {ListOf(s) : s \in SeqsUpTo(SeriesEquityElems, MaxSeries)}

SeriesTimestampFields ==
    MalformedFields \cup {ListOf(s) : s \in SeqsUpTo(SeriesTimestampElems, MaxSeries)}

\* the histories that are not a JSON object
NonDictHistories ==
    {NoneHistory, EmptyList, Json("list"), Json("num")}

(***************************************************************************)
(* The refresh pipeline: main, load_credentials, fetch_alpaca_data,        *)
(* alpaca_get and save_json.                                               *)
(***************************************************************************)
\* what an environment variable can be
EnvValues == {"unset", "empty", "set"}

Endpoints == <<"/v2/positions", "/v2/account/portfolio/history", "/v2/orders">>

\* what the provider can answer to the positions and the orders request
ListOutcomes ==
    {RequestError, NoneHistory, EmptyList, Json("list"), EmptyDict, Json("num")}

Two == Num(2, 1)

Day == Num(SecondsPerDay, 1)

SampleEquities ==
    {<<>>, <<One, Two, Two>>, <<One, One, Two>>, <<Null, One, Two>>, <<Bad, One>>}

SampleTimestamps == {<<Zero, Num(121, 2), Day>>, <<Zero, Zero, Num(121, 2)>>}

\* what the provider can answer to the history request
HistoryOutcomes ==
    ListOutcomes
    \cup {Hist("dict", Field("null", <<>>), ListOf(<<>>)),
          Hist("dict", Field("str", <<>>), ListOf(<<>>)),
          Hist("dict", ListOf(<<One, Two>>), Missing)}
    \cup {Hist("dict", ListOf(e), ListOf(t)) : e \in SampleEquities, t \in SampleTimestamps}

NoFile == [state |-> "absent", doc |-> <<>>]

\* lines 50-56: the JSON body, or None when the request raised
AlpacaGet(outcome) == IF outcome.kind = "error" THEN NoneHistory ELSE outcome

\* `value or default`
OrDefault(value, default) == IF Truthy(value) THEN value ELSE default

\* line 120: the exception of len(history.get('equity', []))
HistoryLenExc(h) ==
    IF h.kind # "dict" THEN "AttributeError"
    ELSE IF h.equity.k = "null" THEN "TypeError"
    ELSE "none"

BuildDocumentSwapped(p, h, o, m) ==
    [positions |-> o, history |-> h, orders |-> p, metrics |-> m]

\* lines 129-135 (lastUpdated, the wall clock, is left out)
BuildDocument(p, h, o, m) == [positions |-> p, history |-> h, orders |-> o, metrics |-> m]

Init ==
    /\ pc = "start"
    /\ env \in EnvValues \X EnvValues
    /\ requests = <<>>
    /\ posResp = NoneHistory /\ ordResp = NoneHistory /\ histResp = NoneHistory
    /\ positions = NoneHistory /\ orders = NoneHistory /\ history = NoneHistory
    /\ metrics = ZeroMetrics
    /\ pairs = <<>>
    /\ exc = "none"
    /\ document = <<>>
    /\ file = NoFile
    /\ writes = 0

\* line 36: both variables are set and not empty
CredentialsPresent(e) == e[1] = "set" /\ e[2] = "set"

\* lines 113 and 29-40
LoadCredentials ==
    /\ pc = "start"
    /\ IF CredentialsPresent(env)
       THEN pc' = "positions" /\ exc' = exc
       ELSE pc' = "except" /\ exc' = "ValueError"
    /\ UNCHANGED <<env, requests, posResp, histResp, ordResp, positions, history,
                   orders, metrics, pairs, document, file, writes>>

\* lines 114-116
FetchPositions ==
    /\ pc = "positions"
    /\ \E outcome \in ListOutcomes :
          /\ requests' = Append(requests, Endpoints[1])
          /\ posResp' = outcome
          /\ positions' = OrDefault(AlpacaGet(outcome), EmptyList)
          /\ IF Sized(positions')
             THEN pc' = "history" /\ exc' = exc
             ELSE pc' = "except" /\ exc' = "TypeError"
    /\ UNCHANGED <<env, histResp, ordResp, history, orders, metrics, pairs,
                   document, file, writes>>

\* lines 118-120
FetchHistory ==
    /\ pc = "history"
    /\ \E outcome \in HistoryOutcomes :
          /\ requests' = Append(requests, Endpoints[2])
          /\ histResp' = outcome
          /\ history' = OrDefault(AlpacaGet(outcome), EmptyDict)
          /\ IF HistoryLenExc(history') = "none"
             THEN pc' = "orders" /\ exc' = exc
             ELSE pc' = "except" /\ exc' = HistoryLenExc(history')
    /\ UNCHANGED <<env, posResp, ordResp, positions, orders, metrics, pairs,
                   document, file, writes>>

\* lines 122-124
FetchOrders ==
    /\ pc = "orders"
    /\ \E outcome \in ListOutcomes :
          /\ requests' = Append(requests, Endpoints[3])
          /\ ordResp' = outcome
          /\ orders' = OrDefault(AlpacaGet(outcome), EmptyList)
          /\ IF Sized(orders')
             THEN pc' = "metrics" /\ exc' = exc
             ELSE pc' = "except" /\ exc' = "TypeError"
    /\ UNCHANGED <<env, posResp, histResp, positions, history, metrics, pairs,
                   document, file, writes>>

\* lines 126-135
ComputeAndBuild ==
    /\ pc = "metrics"
    /\ \E r \in {ComputeMetrics(history)} :
          IF r.exc = "none"
          THEN /\ metrics' = r.result
               /\ pairs' = r.pairs
               /\ document' = <<BuildDocument(positions, history, orders, r.result)>>
               /\ pc' = "save"
               /\ exc' = exc
          ELSE /\ pc' = "except"
               /\ exc' = r.exc
               /\ UNCHANGED <<metrics, pairs, document>>
    /\ UNCHANGED <<env, requests, posResp, histResp, ordResp, positions, history,
                   orders, file, writes>>

\* lines 150-152 and 138-143: the file is written whole, or makedirs/open
\* raises before anything is written, or the write raises part-way
SaveJson ==
    /\ pc = "save"
    /\ \/ /\ file' = [state |-> "complete", doc |-> document]
          /\ writes' = writes + 1
          /\ pc' = "done"
          /\ exc' = exc
       \/ /\ pc' = "except"
          /\ exc' = "OSError"
          /\ UNCHANGED <<file, writes>>
       \/ /\ file' = [state |-> "partial", doc |-> <<>>]
          /\ writes' = writes + 1
          /\ pc' = "except"
          /\ exc' = "OSError"
    /\ UNCHANGED <<env, requests, posResp, histResp, ordResp, positions, history,
                   orders, metrics, pairs, document>>

CaughtValueError(e) == e = "ValueError"

\* line 153: `except Exception` catches every subclass of Exception
Caught(e) ==
    e \in {"ValueError", "TypeError", "AttributeError", "OverflowError",
           "ZeroDivisionError", "OSError"}

\* lines 153-154: main reports the exception and returns
HandleException ==
    /\ pc = "except"
    /\ pc' = IF Caught(exc) THEN "done" ELSE "propagated"
    /\ UNCHANGED <<env, requests, posResp, histResp, ordResp, positions, history,
                   orders, metrics, pairs, exc, document, file, writes>>

Next ==
    \/ LoadCredentials
    \/ FetchPositions
    \/ FetchHistory
    \/ FetchOrders
    \/ ComputeAndBuild
    \/ SaveJson
    \/ HandleException

Spec == Init /\ [][Next]_vars

\* main runs to its end: every step of it is taken
FairSpec ==
    /\ Spec
    /\ WF_vars(LoadCredentials)
    /\ WF_vars(FetchPositions)
    /\ WF_vars(FetchHistory)
    /\ WF_vars(FetchOrders)
    /\ WF_vars(ComputeAndBuild)
    /\ WF_vars(SaveJson)
    /\ WF_vars(HandleException)

(***************************************************************************)
(* A direct call compute_metrics(history) on any history.                  *)
(***************************************************************************)
InitWith(equityFields, timestampFields) ==
    /\ pc = "call"
    /\ \/ history \in NonDictHistories
       \/ \E e \in equityFields, t \in timestampFields : history = Hist("dict", e, t)
    /\ env = <<"unset", "unset">>
    /\ requests = <<>>
    /\ posResp = NoneHistory /\ ordResp = NoneHistory /\ histResp = NoneHistory
    /\ positions = NoneHistory /\ orders = NoneHistory
    /\ metrics = ZeroMetrics
    /\ pairs = <<>>
    /\ exc = "none"
    /\ document = <<>>
    /\ file = NoFile
    /\ writes = 0

CallComputeMetrics ==
    /\ pc = "call"
    /\ \E r \in {ComputeMetrics(history)} :
          /\ pc' = IF r.exc = "none" THEN "returned" ELSE "raised"
          /\ metrics' = r.result
          /\ pairs' = r.pairs
          /\ exc' = r.exc
    /\ UNCHANGED <<env, requests, posResp, histResp, ordResp, positions, history,
                   orders, document, file, writes>>

NextCall == CallComputeMetrics

\* untrusted lists: nulls, values float() and int() reject, numbers
InitCall == InitWith(EquityFields, TimestampFields)

SpecCall == InitCall /\ [][NextCall]_vars

\* longer lists of numbers
InitSeries == InitWith(SeriesEquityFields, SeriesTimestampFields)

SpecSeries == InitSeries /\ [][NextCall]_vars

(***************************************************************************)
(* Properties.                                                             *)
(***************************************************************************)
\* compute_metrics has been called and has returned or raised
Called == pc \in {"returned", "raised"}

\* the history is a mapping whose equity and timestamp are lists
ListsGiven(h) == h.kind = "dict" /\ h.equity.k = "list" /\ h.timestamp.k = "list"

\* ... and every non-null element converts, so that the surviving pairs exist
Coercible(h) == ListsGiven(h) /\ CoerceExc(h) = "none"

\* n of line 66, counted on the input
AlignedSamples(h) ==
    Min(Len(NonNullIdx(h.equity.v)), Len(NonNullIdx(h.timestamp.v)))

MetricFields == {"totalReturn", "annualizedReturn", "sharpeRatio"}

\* C1: compute_metrics never raises: every call returns a result, and a
\* history without the two lists gives the all-zero result.
C1_NeverRaises ==
    /\ pc # "raised"
    /\ (pc = "returned" /\ ~ListsGiven(history)) => metrics = ZeroMetrics

\* C2 as stated: with exactly two surviving positive-equity samples the result
\* keeps totalReturn = last/first - 1 and the annualizedReturn of the formula,
\* and only sharpeRatio is 0.0.
C2_TwoSamplesKeepReturns ==
    (Called /\ Coercible(history) /\ Len(Pairs(history)) = 2) =>
        /\ pc = "returned"
        /\ metrics.totalReturn = FiniteOrZero(TotalReturn(Pairs(history)))
        /\ metrics.annualizedReturn = FiniteOrZero(AnnualizedReturn(Pairs(history)))
        /\ metrics.sharpeRatio = Zero

\* C2 amended: with exactly two surviving positive-equity samples (one daily
\* return) compute_metrics returns the all-zero result: the gate of at least
\* 2 finite returns zeroes totalReturn and annualizedReturn too.
C2_TwoSamplesAllZero ==
    (Called /\ Coercible(history) /\ Len(Pairs(history)) = 2) =>
        (pc = "returned" /\ metrics = ZeroMetrics)

\* two samples survive, their equities differ, and the result is all-zero
C2_Witness ==
    /\ pc = "returned"
    /\ Len(pairs) = 2
    /\ pairs[1].eq.k = "fin" /\ pairs[2].eq.k = "fin"
    /\ pairs[1].eq # pairs[2].eq
    /\ metrics = ZeroMetrics

\* C3: every pair compute_metrics uses holds the equity and the timestamp of
\* the same index of the input lists.
C3_PairsAligned ==
    pc = "returned" => \A j \in 1..Len(pairs) : pairs[j].ei = pairs[j].ti

\* C4: an input with fewer than 2 aligned samples gives exactly the all-zero
\* result.
C4_FewAlignedAllZero ==
    (Called /\ ListsGiven(history) /\ AlignedSamples(history) < 2) =>
        (pc = "returned" /\ metrics = ZeroMetrics)

\* every equity value of the history is a number <= 0
AllNonPositive(h) ==
    /\ h.kind = "dict"
    /\ h.equity.k = "list"
    /\ \A i \in 1..Len(h.equity.v) : h.equity.v[i].k = "fin" /\ h.equity.v[i].n <= 0

\* C5: an input whose equity values are all <= 0 gives exactly the all-zero
\* result, whatever the timestamps.
C5_NonPositiveAllZero ==
    (Called /\ AllNonPositive(history)) => (pc = "returned" /\ metrics = ZeroMetrics)

\* at least two samples survive and the last one is not later than the first
NoTimeElapsed(h) ==
    /\ Coercible(h)
    /\ Len(Pairs(h)) >= 2
    /\ Elapsed(Pairs(h)) <= 0

\* the Sharpe ratio of the formula, 0.0 with fewer than 2 returns
SharpeOf(rs) == IF Len(rs) >= 2 THEN SharpeRatio(rs) ELSE Zero

\* C6 as stated: when the last surviving timestamp is <= the first,
\* annualizedReturn is 0.0 and totalReturn and sharpeRatio have the values of
\* their formulas.
C6_NoTimeKeepsOthers ==
    (Called /\ NoTimeElapsed(history)) =>
        /\ pc = "returned"
        /\ metrics.annualizedReturn = Zero
        /\ metrics.totalReturn = FiniteOrZero(TotalReturn(Pairs(history)))
        /\ metrics.sharpeRatio = FiniteOrZero(SharpeOf(DailyReturns(Pairs(history))))

\* C6 amended: when the last surviving timestamp is <= the first,
\* annualizedReturn is 0.0; totalReturn and sharpeRatio have the values of
\* their formulas when at least 2 finite daily returns exist, and the result is
\* all-zero otherwise.
C6_NoTimeZeroAnnualized ==
    (Called /\ NoTimeElapsed(history)) =>
        /\ pc = "returned"
        /\ metrics.annualizedReturn = Zero
        /\ IF Len(DailyReturns(Pairs(history))) >= 2
           THEN /\ metrics.totalReturn = FiniteOrZero(TotalReturn(Pairs(history)))
                /\ metrics.sharpeRatio =
                       FiniteOrZero(SharpeRatio(DailyReturns(Pairs(history))))
           ELSE metrics = ZeroMetrics

\* out-of-order timestamps, a growth ratio other than 1, and the two other
\* fields computed
C6_Witness ==
    /\ pc = "returned"
    /\ Len(pairs) >= 3
    /\ Elapsed(pairs) < 0
    /\ metrics.annualizedReturn = Zero
    /\ metrics.totalReturn # Zero
    /\ metrics.sharpeRatio # Zero

\* the result came from the formulas of lines 87-102
FormulasReached == Len(pairs) >= 2 /\ Len(DailyReturns(pairs)) >= 2

\* C7: every returned result has exactly the three fields, each a finite
\* number; a formula value that is not finite is 0.0 in its field and the
\* other fields keep their formula values.
C7_ResultFinite ==
    pc = "returned" =>
        /\ DOMAIN metrics = MetricFields
        /\ \A f \in MetricFields : IsFinite(metrics[f])
        /\ FormulasReached =>
              /\ metrics.totalReturn =
                     IF IsFinite(TotalReturn(pairs)) THEN TotalReturn(pairs) ELSE Zero
              /\ metrics.annualizedReturn =
                     IF IsFinite(AnnualizedReturn(pairs))
                     THEN AnnualizedReturn(pairs) ELSE Zero
              /\ metrics.sharpeRatio = SharpeRatio(DailyReturns(pairs))

\* the total return of the formula is infinite, its field is 0.0 and the
\* Sharpe ratio is kept
C7_Witness ==
    /\ pc = "returned"
    /\ FormulasReached
    /\ ~IsFinite(TotalReturn(pairs))
    /\ metrics.totalReturn = Zero
    /\ metrics.sharpeRatio # Zero

\* C8 as stated: the positions, history and orders of the document are the
\* values the provider returned.
C8_ReturnedValuesKept ==
    document # <<>> =>
        /\ posResp.kind # "error" => document[1].positions = posResp
        /\ histResp.kind # "error" => document[1].history = histResp
        /\ ordResp.kind # "error" => document[1].orders = ordResp

\* C8 amended: each of the three fields is the value the provider returned
\* when that value is truthy, and the empty default ([] for positions and
\* orders, {} for history) when the request failed or returned a falsy value;
\* computing the metrics leaves the history as it was.
C8_TruthyValuesKept ==
    document # <<>> =>
        /\ document[1].positions = IF Truthy(posResp) THEN posResp ELSE EmptyList
        /\ document[1].history = IF Truthy(histResp) THEN histResp ELSE EmptyDict
        /\ document[1].orders = IF Truthy(ordResp) THEN ordResp ELSE EmptyList
        /\ document[1].history = history

\* a document built from three different answers, the history a series the
\* metrics were computed from
C8_Witness ==
    /\ document # <<>>
    /\ posResp = Json("list")
    /\ ordResp = EmptyDict
    /\ histResp.equity.k = "list"
    /\ Len(pairs) >= 2
    /\ document[1].history = histResp

\* C9: once the credentials have loaded, exactly the three requests are
\* issued, in the order positions, history, orders; a failed request leaves its
\* empty default and a failed history request the all-zero metrics.
C9_ThreeRequests ==
    (pc = "done" /\ CredentialsPresent(env)) =>
        /\ requests = Endpoints
        /\ posResp.kind = "error" => positions = EmptyList
        /\ histResp.kind = "error" => history = EmptyDict /\ metrics = ZeroMetrics
        /\ ordResp.kind = "error" => orders = EmptyList

C10_Safety ==
    /\ writes <= 1
    /\ writes > 0 => requests = Endpoints /\ document # <<>>
    /\ file.state = "complete" => file.doc = document
    /\ ~CredentialsPresent(env) => requests = <<>> /\ writes = 0 /\ file = NoFile
    /\ pc # "propagated"

\* C10: the file is written at most once and only after the three requests
\* and the metrics; without credentials no request is issued and nothing is
\* written; main ends, and no exception leaves it.
C10_WriteOnceAndReturn == []C10_Safety /\ <>(pc = "done")

\* a run that wrote the file
C10_Witness == pc = "done" /\ writes = 1 /\ file.state = "complete"

====
